---- MODULE Spec2Model ----
(***************************************************************************)
(* A model of the lab04 environment simulator: the stochastic processes    *)
(* of processes.py, the measurement and device layer of env_sim.py and the *)
(* Environment run loops.                                                  *)
(*                                                                         *)
(* Objects live in two heaps, procs and devs: sequences of records indexed *)
(* by object identity.  A reference held by an object (birth_rate,         *)
(* base_process, components, base_device, ...) is an index into the heap.  *)
(* Floats are modelled by integers; the draws of numpy.random are inputs   *)
(* of the actions, taken from small sets:                                  *)
(*   poisson(lam) : 0 for lam = 0, else any of 0..MaxDraw                  *)
(*   randn()      : any of -MaxZ..MaxZ                                     *)
(*   random()     : u / RandRes for any u in 0..RandRes-1, i.e. [0, 1)     *)
(* A probability q is kept as the integer q * RandRes.                     *)
(* The absent reading None is the empty tuple, a present reading v is <<v>>*)
(***************************************************************************)
EXTENDS Integers, Sequences, FiniteSets, TLC

VARIABLES
    scenario,   \* the objects constructed at setup (the inputs of the run)
    procs,      \* heap of Process objects
    devs,       \* heap of Device objects
    raised,     \* "" or the exception that ended the last call
    psteps,     \* ghost: number of step() calls made on each process
    pacc,       \* ghost: per IntegratedProcess, sum of base.get() read by its steps
    dsteps,     \* ghost: number of step() calls made on each device
    dfrozen,    \* ghost: per decorator, the wrapped reading when its lifetime ran out
    dlast,      \* ghost: the draw and the fresh sample of the last device step
    obs,        \* ghost: the readings of all devices at every tick, when observed
    last,       \* ghost: the last call made, [op, on, id]
    env,        \* the Environment and the position of its run loop
    tick        \* ghost: the current tick of the run loop, [start, draws, log]

procGhost == <<psteps, pacc>>
devGhost == <<dsteps, dfrozen, dlast, obs>>
runVars == <<env, tick>>
vars == <<scenario, procs, devs, raised, psteps, pacc, dsteps, dfrozen, dlast, obs, last,
          env, tick>>

\* ------------------------------------------------------------------ bounds
MaxDraw   == 2     \* largest Poisson count drawn
MaxZ      == 1     \* largest |randn()| drawn
RandRes   == 2     \* resolution of random(): draws are u / RandRes
MaxInit   == 2     \* BirthDeathProcess init ranges over -MaxInit .. MaxLimit + MaxInit
MaxLimit  == 2     \* BirthDeathProcess limit ranges over 0 .. MaxLimit
MaxOps    == 4     \* step() calls made in a run of a multi-object scenario
MaxTicks  == 15    \* step() calls made on a lone PwConstantProcess
MaxLife   == 2     \* decorator lifetimes range over 0 .. MaxLife
MaxDevSteps == 4   \* step() calls made on the device of a scenario
MaxRunTicks == 2   \* ticks a run loop is followed for

\* ----------------------------------------------------------------- helpers
None == <<>>
Some(v) == <<v>>
Min(a, b) == IF a < b THEN a ELSE b
Max(a, b) == IF a > b THEN a ELSE b

RECURSIVE SumSeq(_)
SumSeq(s) == IF s = <<>> THEN 0 ELSE Head(s) + SumSeq(Tail(s))

\* The result of a call p.step() that may raise: the heap with the object at p as
\* the call left it, and the exception ("" when the call returned).
Ret(heap, p, self) == [heap |-> [heap EXCEPT ![p] = self], raised |-> ""]
Raise(heap, p, self, exc) == [heap |-> [heap EXCEPT ![p] = self], raised |-> exc]

\* A draw of numpy.random for one step() call.
Draw(nb, nd, z, u) == [n_birth |-> nb, n_death |-> nd, z |-> z, u |-> u]
NoDraw == Draw(0, 0, 0, 0)
Poisson(lam) == IF lam = 0 THEN {0} ELSE 0..MaxDraw
Randn == (0 - MaxZ)..MaxZ
Random == 0..(RandRes - 1)

\* The Callable[[float], float] values handed to TransformedProcess.
Transformations == {"identity", "double", "negate"}
Apply(f, x) ==
    CASE f = "identity" -> x
      [] f = "double"   -> 2 * x
      [] f = "negate"   -> 0 - x

\* ------------------------------------------------------------ constructors
ConstantProcess(value) == [kind |-> "ConstantProcess", value |-> value]

BirthDeathProcess(birth_rate, death_rate, init, limit) ==
    [kind |-> "BirthDeathProcess", birth_rate |-> birth_rate,
     death_rate |-> death_rate, value |-> init, limit |-> limit]

GaussianNoiseProcess(mean, std, z) ==
    [kind |-> "GaussianNoiseProcess", mean |-> mean, std |-> std,
     value |-> std * z + mean]

PwConstantProcess(phase_lengths, values, seasonal) ==
    [kind |-> "PwConstantProcess", phase_lengths |-> phase_lengths,
     values |-> values, seasonal |-> seasonal,
     t |-> 0, phase |-> 0, value |-> values[1]]

ReplayedProcess(samples) == [kind |-> "ReplayedProcess", samples |-> samples, t |-> 0]

SumProcess(components) == [kind |-> "SumProcess", components |-> components]

ProductProcess(components) == [kind |-> "ProductProcess", components |-> components]

OnOffProcess(on_to_off_prob, off_to_on_prob) ==
    [kind |-> "OnOffProcess", on_to_off_prob |-> on_to_off_prob,
     off_to_on_prob |-> off_to_on_prob, value |-> 0]

TransformedProcess(base_process, transformation) ==
    [kind |-> "TransformedProcess", base_process |-> base_process,
     transformation |-> transformation]

\* --------------------------------------------------------------------- get
RECURSIVE Process_get(_, _)
RECURSIVE ProductProcess_get(_, _, _)

SumProcess_get(heap, self) ==
    SumSeq([i \in 1..Len(self.components) |-> Process_get(heap, self.components[i])])

\* res = 1.0; for c in components: res *= c.get()   (i: components consumed)
ProductProcess_get(heap, self, i) ==
    IF i = 0 THEN 1
    ELSE ProductProcess_get(heap, self, i - 1) * Process_get(heap, self.components[i])

TransformedProcess_get(heap, self) ==
    Apply(self.transformation, Process_get(heap, self.base_process))

ReplayedProcess_get(self) == self.samples[self.t + 1]

Process_get(heap, p) ==
    LET self == heap[p] IN
    CASE self.kind = "SumProcess"         -> SumProcess_get(heap, self)
      [] self.kind = "ProductProcess"     -> ProductProcess_get(heap, self, Len(self.components))
      [] self.kind = "TransformedProcess" -> TransformedProcess_get(heap, self)
      [] self.kind = "ReplayedProcess"    -> ReplayedProcess_get(self)
      [] OTHER                            -> self.value

\* IntegratedProcess.__init__ reads base_process.get() of an already built heap.
IntegratedProcess(heap, base_process, offset) ==
    [kind |-> "IntegratedProcess",
     value |-> Process_get(heap, base_process) + offset,
     base_process |-> base_process]

\* -------------------------------------------------------------------- step
RECURSIVE Process_step(_, _, _)

\* Every step operator is the call heap[p].step() with the draws d and yields the
\* heap after the call.
ConstantProcess_step(heap, p) == Ret(heap, p, heap[p])

\* BirthDeathProcess.step without the clamp to the limit.
BirthDeathProcess_step_unclamped(heap, p, d) ==
    LET self == heap[p] IN
    Ret(heap, p, [self EXCEPT !.value = Max(0, self.value + d.n_birth - d.n_death)])

\* BirthDeathProcess.step clamping to the limit after the deaths are subtracted.
BirthDeathProcess_step_deaths_first(heap, p, d) ==
    LET self    == heap[p]
        _lambda == Process_get(heap, self.birth_rate)
        _mu     == Process_get(heap, self.death_rate)
        alive   == Max(0, self.value + d.n_birth - d.n_death)
    IN  IF _lambda < 0 \/ _mu < 0 THEN Raise(heap, p, self, "ValueError")
        ELSE Ret(heap, p, [self EXCEPT !.value =
                              IF self.limit > 0 THEN Min(self.limit, alive) ELSE alive])

\* numpy's poisson(lam) raises ValueError for lam < 0, before anything is assigned.
BirthDeathProcess_step(heap, p, d) ==
    LET self    == heap[p]
        _lambda == Process_get(heap, self.birth_rate)
        _mu     == Process_get(heap, self.death_rate)
        born    == self.value + d.n_birth
        clamped == IF self.limit > 0 THEN Min(self.limit, born) ELSE born
    IN  IF _lambda < 0 \/ _mu < 0 THEN Raise(heap, p, self, "ValueError")
        ELSE Ret(heap, p, [self EXCEPT !.value = Max(0, clamped - d.n_death)])

GaussianNoiseProcess_step(heap, p, d) ==
    LET self == heap[p] IN
    Ret(heap, p, [self EXCEPT !.value = self.std * d.z + self.mean])

\* PwConstantProcess.step leaving a phase one tick early (t >= length).
PwConstantProcess_step_early(heap, p) ==
    LET self == heap[p]
        t1   == self.t + 1
    IN
    IF self.phase > Len(self.phase_lengths) - 1
    THEN Raise(heap, p, [self EXCEPT !.t = t1], "IndexError")
    ELSE IF t1 >= self.phase_lengths[self.phase + 1]
    THEN LET phase1 == self.phase + 1
             phase2 == IF self.seasonal /\ phase1 > Len(self.values) - 1
                       THEN 0 ELSE phase1
             moved  == [self EXCEPT !.phase = phase2, !.t = 0]
         IN  IF phase2 > Len(self.values) - 1
             THEN Raise(heap, p, moved, "IndexError")
             ELSE Ret(heap, p, [moved EXCEPT !.value = self.values[phase2 + 1]])
    ELSE Ret(heap, p, [self EXCEPT !.t = t1])

\* phase_lengths[phase] and values[phase] raise IndexError past the end of the
\* list; the assignments made before the failing line stay.
PwConstantProcess_step(heap, p) ==
    LET self == heap[p]
        t1   == self.t + 1
    IN
    IF self.phase > Len(self.phase_lengths) - 1
    THEN Raise(heap, p, [self EXCEPT !.t = t1], "IndexError")
    ELSE IF t1 > self.phase_lengths[self.phase + 1]
    THEN LET phase1 == self.phase + 1
             phase2 == IF self.seasonal /\ phase1 > Len(self.values) - 1
                       THEN 0 ELSE phase1
             moved  == [self EXCEPT !.phase = phase2, !.t = 0]
         IN  IF phase2 > Len(self.values) - 1
             THEN Raise(heap, p, moved, "IndexError")
             ELSE Ret(heap, p, [moved EXCEPT !.value = self.values[phase2 + 1]])
    ELSE Ret(heap, p, [self EXCEPT !.t = t1])

\* IntegratedProcess.step assigning the base value instead of adding it.
IntegratedProcess_step_assign(heap, p) ==
    LET self == heap[p] IN
    Ret(heap, p, [self EXCEPT !.value = Process_get(heap, self.base_process)])

IntegratedProcess_step(heap, p) ==
    LET self == heap[p] IN
    Ret(heap, p, [self EXCEPT !.value = self.value + Process_get(heap, self.base_process)])

ReplayedProcess_step(heap, p) ==
    LET self == heap[p]
        t1   == self.t + 1
    IN  Ret(heap, p, [self EXCEPT !.t = IF t1 > Len(self.samples) - 1 THEN 0 ELSE t1])

\* SumProcess.step stepping its components itself.
RECURSIVE StepComponents(_, _, _)
StepComponents(heap, cs, i) ==
    IF i > Len(cs) THEN heap
    ELSE StepComponents(Process_step(heap, cs[i], NoDraw).heap, cs, i + 1)
SumProcess_step_recursive(heap, p) ==
    [heap |-> StepComponents(heap, heap[p].components, 1), raised |-> ""]

SumProcess_step(heap, p) == Ret(heap, p, heap[p])

ProductProcess_step(heap, p) == Ret(heap, p, heap[p])

\* random() < prob.get(), both in units of 1 / RandRes
OnOffProcess_step(heap, p, d) ==
    LET self == heap[p] IN
    IF self.value = 0
    THEN IF d.u < Process_get(heap, self.off_to_on_prob)
         THEN Ret(heap, p, [self EXCEPT !.value = 1]) ELSE Ret(heap, p, self)
    ELSE IF d.u < Process_get(heap, self.on_to_off_prob)
         THEN Ret(heap, p, [self EXCEPT !.value = 0]) ELSE Ret(heap, p, self)

TransformedProcess_step(heap, p) == Ret(heap, p, heap[p])

\* The call p.step() on the object at index p, dispatched on its class.
Process_step(heap, p, d) ==
    LET kind == heap[p].kind IN
    CASE kind = "ConstantProcess"      -> ConstantProcess_step(heap, p)
      [] kind = "BirthDeathProcess"    -> BirthDeathProcess_step(heap, p, d)
      [] kind = "GaussianNoiseProcess" -> GaussianNoiseProcess_step(heap, p, d)
      [] kind = "PwConstantProcess"    -> PwConstantProcess_step(heap, p)
      [] kind = "IntegratedProcess"    -> IntegratedProcess_step(heap, p)
      [] kind = "ReplayedProcess"      -> ReplayedProcess_step(heap, p)
      [] kind = "SumProcess"           -> SumProcess_step(heap, p)
      [] kind = "ProductProcess"       -> ProductProcess_step(heap, p)
      [] kind = "OnOffProcess"         -> OnOffProcess_step(heap, p, d)
      [] kind = "TransformedProcess"   -> TransformedProcess_step(heap, p)

\* The draws numpy.random can hand to p.step() in the given heap.
DrawsOf(heap, p) ==
    LET self == heap[p] IN
    CASE self.kind = "BirthDeathProcess" ->
            {Draw(nb, nd, 0, 0) :
                nb \in Poisson(Max(0, Process_get(heap, self.birth_rate))),
                nd \in Poisson(Max(0, Process_get(heap, self.death_rate)))}
      [] self.kind = "GaussianNoiseProcess" -> {Draw(0, 0, z, 0) : z \in Randn}
      [] self.kind = "OnOffProcess"         -> {Draw(0, 0, 0, u) : u \in Random}
      [] OTHER -> {NoDraw}

\* ------------------------------------------------------------ measurement
\* The distortion callables of env_sim.py: identity and add_gauss_noise(sigma).
identity == [fn |-> "identity", sigma |-> 0]
add_gauss_noise(sigma) == [fn |-> "add_gauss_noise", sigma |-> sigma]
Distort(distortion, x, z) ==
    IF distortion.fn = "identity" THEN x ELSE x + z * distortion.sigma

Measurement(process, distortion) == [process |-> process, distortion |-> distortion]

\* Measurement.get(), z being the randn() its distortion draws
Measurement_get(pheap, self, z) ==
    Distort(self.distortion, Process_get(pheap, self.process), z)

\* ----------------------------------------------------------------- devices
\* A draw of numpy.random for one BasicDevice.step(): u for random(), z1 and z2
\* for the distortions of its first and second measurement.get().
DevDraw(u, z1, z2) == [u |-> u, z1 |-> z1, z2 |-> z2]
NoDevDraw == DevDraw(0, 0, 0)

BasicDevice(pheap, name, measurement, p_skip, influx_meas, influx_tags, z) ==
    [kind |-> "BasicDevice", name |-> name, measurement |-> measurement,
     p_skip |-> p_skip, value |-> Some(Measurement_get(pheap, measurement, z)),
     tags |-> influx_tags, influx_meas |-> influx_meas]

DoomedDevice(name, base_device, lifetime) ==
    [kind |-> "DoomedDevice", name |-> name, base_device |-> base_device,
     time_remaining |-> lifetime]

RECURSIVE Device_get(_, _)
RECURSIVE Device_get_influx_meas(_, _)
RECURSIVE Device_get_tags(_, _)
RECURSIVE Device_step(_, _, _, _)

BasicDevice_get(dheap, d) == dheap[d].value

DoomedDevice_get(dheap, d) ==
    IF dheap[d].time_remaining = 0 THEN None ELSE Device_get(dheap, dheap[d].base_device)

StickyDevice_get(dheap, d) == dheap[d].value

Device_get(dheap, d) ==
    CASE dheap[d].kind = "BasicDevice"  -> BasicDevice_get(dheap, d)
      [] dheap[d].kind = "DoomedDevice" -> DoomedDevice_get(dheap, d)
      [] dheap[d].kind = "StickyDevice" -> StickyDevice_get(dheap, d)

\* StickyDevice.__init__ reads base_device.get() of an already built heap.
StickyDevice(dheap, name, base_device, lifetime) ==
    [kind |-> "StickyDevice", name |-> name, base_device |-> base_device,
     time_remaining |-> lifetime, value |-> Device_get(dheap, base_device)]

BasicDevice_get_influx_meas(dheap, d) == dheap[d].influx_meas
DoomedDevice_get_influx_meas(dheap, d) == Device_get_influx_meas(dheap, dheap[d].base_device)
StickyDevice_get_influx_meas(dheap, d) == Device_get_influx_meas(dheap, dheap[d].base_device)
Device_get_influx_meas(dheap, d) ==
    CASE dheap[d].kind = "BasicDevice"  -> BasicDevice_get_influx_meas(dheap, d)
      [] dheap[d].kind = "DoomedDevice" -> DoomedDevice_get_influx_meas(dheap, d)
      [] dheap[d].kind = "StickyDevice" -> StickyDevice_get_influx_meas(dheap, d)

BasicDevice_get_tags(dheap, d) == dheap[d].tags
DoomedDevice_get_tags(dheap, d) == Device_get_tags(dheap, dheap[d].base_device)
\* StickyDevice.get_tags returning a dict of its own.
StickyDevice_get_tags_own(dheap, d) == [sensor_id |-> dheap[d].name]
StickyDevice_get_tags(dheap, d) == Device_get_tags(dheap, dheap[d].base_device)
Device_get_tags(dheap, d) ==
    CASE dheap[d].kind = "BasicDevice"  -> BasicDevice_get_tags(dheap, d)
      [] dheap[d].kind = "DoomedDevice" -> DoomedDevice_get_tags(dheap, d)
      [] dheap[d].kind = "StickyDevice" -> StickyDevice_get_tags(dheap, d)

\* The result of d.step(): the device heap after the call, the exception, and
\* the step() calls made, in the order they were entered and left; a decorator
\* marks the point where it tests its time_remaining.
Call(d) == [ev |-> "call", id |-> d]
Return(d) == [ev |-> "return", id |-> d]
Counter(d) == [ev |-> "counter", id |-> d]
DevRet(dheap, d, self, inner) ==
    [heap |-> [dheap EXCEPT ![d] = self], raised |-> "",
     calls |-> <<Call(d)>> \o inner \o <<Return(d)>>]

\* BasicDevice.step skipping on random() <= p_skip.
BasicDevice_step_inclusive(dheap, pheap, d, dr) ==
    LET self == dheap[d]
        skip == dr.u <= self.p_skip
    IN  DevRet(dheap, d,
               [self EXCEPT !.value = IF skip THEN None
                                      ELSE Some(Measurement_get(pheap, self.measurement, dr.z2))],
               <<>>)

\* if p_skip == 0: value = measurement.get()
\* skip = random() < p_skip; value = None if skip else measurement.get()
BasicDevice_step(dheap, pheap, d, dr) ==
    LET self  == dheap[d]
        first == IF self.p_skip = 0
                 THEN [self EXCEPT !.value = Some(Measurement_get(pheap, self.measurement, dr.z1))]
                 ELSE self
        skip  == dr.u < self.p_skip
    IN  DevRet(dheap, d,
               [first EXCEPT !.value = IF skip THEN None
                                       ELSE Some(Measurement_get(pheap, self.measurement, dr.z2))],
               <<>>)

\* DoomedDevice.step stopping its countdown one short (time_remaining > 1).
DoomedDevice_step_short(dheap, pheap, d, dr) ==
    LET base == Device_step(dheap, pheap, dheap[d].base_device, dr)
        self == base.heap[d]
    IN  DevRet(base.heap, d,
               IF self.time_remaining > 1
               THEN [self EXCEPT !.time_remaining = @ - 1] ELSE self,
               base.calls \o <<Counter(d)>>)

DoomedDevice_step(dheap, pheap, d, dr) ==
    LET base == Device_step(dheap, pheap, dheap[d].base_device, dr)
        self == base.heap[d]
    IN  DevRet(base.heap, d,
               IF self.time_remaining > 0
               THEN [self EXCEPT !.time_remaining = @ - 1] ELSE self,
               base.calls \o <<Counter(d)>>)

\* StickyDevice.step refreshing its cache on every step.
StickyDevice_step_refreshing(dheap, pheap, d, dr) ==
    LET base == Device_step(dheap, pheap, dheap[d].base_device, dr)
        self == base.heap[d]
    IN  DevRet(base.heap, d,
               [self EXCEPT !.time_remaining = IF @ > 0 THEN @ - 1 ELSE @,
                            !.value = Device_get(base.heap, self.base_device)],
               base.calls \o <<Counter(d)>>)

\* StickyDevice.step leaving the wrapped device alone once its lifetime is over.
StickyDevice_step_lazy(dheap, pheap, d, dr) ==
    IF dheap[d].time_remaining > 0
    THEN LET base == Device_step(dheap, pheap, dheap[d].base_device, dr)
             self == base.heap[d]
         IN  DevRet(base.heap, d,
                    [self EXCEPT !.time_remaining = @ - 1,
                                 !.value = Device_get(base.heap, self.base_device)],
                    base.calls \o <<Counter(d)>>)
    ELSE DevRet(dheap, d, dheap[d], <<Counter(d)>>)

StickyDevice_step(dheap, pheap, d, dr) ==
    LET base == Device_step(dheap, pheap, dheap[d].base_device, dr)
        self == base.heap[d]
    IN  DevRet(base.heap, d,
               IF self.time_remaining > 0
               THEN [self EXCEPT !.time_remaining = @ - 1,
                                 !.value = Device_get(base.heap, self.base_device)]
               ELSE self,
               base.calls \o <<Counter(d)>>)

\* The call d.step() on the object at index d, dispatched on its class.
Device_step(dheap, pheap, d, dr) ==
    CASE dheap[d].kind = "BasicDevice"  -> BasicDevice_step(dheap, pheap, d, dr)
      [] dheap[d].kind = "DoomedDevice" -> DoomedDevice_step(dheap, pheap, d, dr)
      [] dheap[d].kind = "StickyDevice" -> StickyDevice_step(dheap, pheap, d, dr)

\* The BasicDevice a chain of decorators ends in.
RECURSIVE Underlying(_, _)
Underlying(dheap, d) ==
    IF dheap[d].kind = "BasicDevice" THEN d ELSE Underlying(dheap, dheap[d].base_device)

\* The draws numpy.random can hand to d.step(): the distortion of identity
\* draws nothing, and the first measurement.get() is made only for p_skip = 0.
DevDrawsOf(dheap, d) ==
    LET b  == dheap[Underlying(dheap, d)]
        zs == IF b.measurement.distortion.fn = "identity" THEN {0} ELSE Randn
    IN  {DevDraw(u, z1, z2) :
            u \in Random, z1 \in IF b.p_skip = 0 THEN zs ELSE {0}, z2 \in zs}

\* --------------------------------------------------------------- scenarios
\* The objects a run is set up with.  Each scenario is one object graph, built
\* with the constructors in the order a setup script would call them.
PwShapes ==
    {[phase_lengths |-> <<3, 2>>,    values |-> <<10, 20>>],
     [phase_lengths |-> <<1, 1, 2>>, values |-> <<10, 20, 30>>],
     [phase_lengths |-> <<0, 2>>,    values |-> <<10, 20>>]}

\* The environments set up for a run, after lab_env.py.  "temperature": a rate
\* process, its integral and their sum, read by a perfect device and a
\* StickyDevice over it.  "room": a BirthDeathProcess over two constant rates,
\* read by a device that skips readings and by a DoomedDevice over a perfect one.
\* "shared": one process read by a device that skips readings and a
\* StickyDevice over that device, both added to the Environment.
\* "raising": a non-seasonal PwConstantProcess, whose second step() raises,
\* and a process read by a perfect device.
EnvProcs(graph) ==
    CASE graph = "temperature" ->
            LET h1 == <<ReplayedProcess(<<1, 2, 3>>)>>
                h2 == Append(h1, IntegratedProcess(h1, 1, 8))
            IN  Append(h2, SumProcess(<<2, 1>>))
      [] graph = "room" ->
            <<ConstantProcess(1), ConstantProcess(1), BirthDeathProcess(1, 2, 0, 2)>>
      [] graph = "shared" -> <<ReplayedProcess(<<1, 2, 3>>)>>
      [] graph = "raising" ->
            <<PwConstantProcess(<<1>>, <<10>>, FALSE), ReplayedProcess(<<1, 2, 3>>)>>

EnvDevs(graph) ==
    CASE graph = "temperature" ->
            LET h1 == <<BasicDevice(EnvProcs(graph), "temp0", Measurement(3, identity), 0,
                                    "temperature", [room_id |-> "0", sensor_id |-> "0"], 0)>>
            IN  Append(h1, StickyDevice(h1, "temp2", 1, 1))
      [] graph = "room" ->
            LET h1 == <<BasicDevice(EnvProcs(graph), "people", Measurement(3, identity), 1,
                                    "n_people", [room_id |-> "1", sensor_id |-> "0"], 0),
                        BasicDevice(EnvProcs(graph), "temp1", Measurement(3, identity), 0,
                                    "temperature", [room_id |-> "1", sensor_id |-> "1"], 0)>>
            IN  Append(h1, DoomedDevice("temp1", 2, 1))
      [] graph = "shared" ->
            LET h1 == <<BasicDevice(EnvProcs(graph), "temp3", Measurement(1, identity), 1,
                                    "temperature", [room_id |-> "2", sensor_id |-> "0"], 0)>>
            IN  Append(h1, StickyDevice(h1, "temp3", 1, 1))
      [] graph = "raising" ->
            <<BasicDevice(EnvProcs(graph), "temp4", Measurement(2, identity), 0,
                          "temperature", [room_id |-> "3", sensor_id |-> "0"], 0)>>

\* The devices added to the Environment: the outermost ones in "temperature"
\* and "room", the wrapped device and its wrapper in "shared".
EnvRegistered(graph) ==
    CASE graph = "temperature" -> {2}
      [] graph = "room" -> {1, 3}
      [] graph = "shared" -> {1, 2}
      [] graph = "raising" -> {1}

Graphs == {"temperature", "room", "shared", "raising"}
Modes == {"run_console", "run_influx", "generate_data"}
EnvScenarios ==
    {[name |-> "env", graph |-> g, mode |-> m, steps |-> 0] :
        g \in Graphs, m \in {"run_console", "run_influx"}}
    \cup {[name |-> "env", graph |-> g, mode |-> "generate_data", steps |-> n] :
        g \in Graphs, n \in 0..MaxRunTicks}

\* A device scenario: a BasicDevice over ReplayedProcess([1,2,3,4]), wrapped
\* by the decorators of chain, innermost first.
Decorators ==
    {[kind |-> k, lifetime |-> n] :
        k \in {"DoomedDevice", "StickyDevice"}, n \in 0..MaxLife}
ExampleTags == [room_id |-> "1", sensor_id |-> "2"]
DevScenario(c, q, n, z, o) ==
    [name |-> "device", chain |-> c, p_skip |-> q, noise |-> n, z0 |-> z,
     observe |-> o]

\* A bare BasicDevice with every p_skip, with and without noise; one decorator
\* over a device of every p_skip; two nested decorators over a device that skips
\* some readings; and one decorator over a perfect device, its readings observed.
DevScenarios ==
    {DevScenario(<<>>, q, FALSE, 0, FALSE) : q \in 0..RandRes}
    \cup {DevScenario(<<>>, q, TRUE, z, FALSE) : q \in 0..RandRes, z \in Randn}
    \cup {DevScenario(<<a>>, q, FALSE, 0, FALSE) : a \in Decorators, q \in 0..RandRes}
    \cup {DevScenario(<<a, b>>, 1, FALSE, 0, FALSE) :
            a \in {x \in Decorators : x.lifetime \in {1, MaxLife}},
            b \in {x \in Decorators : x.lifetime \in {1, MaxLife}}}
    \cup {DevScenario(<<a>>, 0, FALSE, 0, TRUE) : a \in Decorators}

RECURSIVE Wrap(_, _, _)
Wrap(dheap, chain, i) ==
    IF i > Len(chain) THEN dheap
    ELSE Wrap(Append(dheap,
                     IF chain[i].kind = "DoomedDevice"
                     THEN DoomedDevice("dev", Len(dheap), chain[i].lifetime)
                     ELSE StickyDevice(dheap, "dev", Len(dheap), chain[i].lifetime)),
              chain, i + 1)

DeviceProcs == <<ReplayedProcess(<<1, 2, 3, 4>>)>>

DevsOf(sc) ==
    IF sc.name = "device"
    THEN Wrap(<<BasicDevice(DeviceProcs, "dev",
                            Measurement(1, IF sc.noise THEN add_gauss_noise(1) ELSE identity),
                            sc.p_skip, "temperature", ExampleTags,
                            sc.z0)>>,
              sc.chain, 1)
    ELSE IF sc.name = "env" THEN EnvDevs(sc.graph)
    ELSE <<>>

ProcScenarios ==
    {[name |-> "birthdeath", init |-> i, limit |-> l, lam |-> a, mu |-> b] :
        i \in (0 - MaxInit)..(MaxLimit + MaxInit), l \in 0..MaxLimit,
        a \in 0..1, b \in 0..1}
    \cup {[name |-> "pwconstant", shape |-> sh, seasonal |-> se] :
        sh \in PwShapes, se \in BOOLEAN}
    \cup {[name |-> "integrated", base |-> b, offset |-> o] :
        b \in {"constant", "replayed"}, o \in {0, 5}}
    \cup {[name |-> "composite"]}

ProcsOf(sc) ==
    CASE sc.name = "birthdeath" ->
            <<ConstantProcess(sc.lam), ConstantProcess(sc.mu),
              BirthDeathProcess(1, 2, sc.init, sc.limit)>>
      [] sc.name = "pwconstant" ->
            <<PwConstantProcess(sc.shape.phase_lengths, sc.shape.values, sc.seasonal)>>
      [] sc.name = "integrated" ->
            LET h == IF sc.base = "constant" THEN <<ConstantProcess(2)>>
                     ELSE <<ReplayedProcess(<<1, 2, 3>>)>>
            IN  Append(h, IntegratedProcess(h, 1, sc.offset))
      [] sc.name = "composite" ->
            <<ConstantProcess(3), ConstantProcess(4), SumProcess(<<1, 2>>),
              ReplayedProcess(<<1, 2, 3>>), SumProcess(<<1, 4>>),
              ProductProcess(<<2, 4>>), TransformedProcess(4, "double")>>
      [] sc.name = "device" -> DeviceProcs
      [] sc.name = "env" -> EnvProcs(sc.graph)

\* step() calls a run of the scenario makes at most
Budget(sc) == IF sc.name = "pwconstant" THEN MaxTicks ELSE MaxOps

Procs == 1..Len(procs)
KindOf(p) == procs[p].kind

\* ------------------------------------------------ processes called directly
\* The state after the setup of a scenario.
Readings(dheap) == [d \in 1..Len(dheap) |-> Device_get(dheap, d)]
Setup(scenarios) ==
    /\ scenario \in scenarios
    /\ procs = ProcsOf(scenario)
    /\ devs = DevsOf(scenario)
    /\ raised = ""
    /\ psteps = [p \in 1..Len(procs) |-> 0]
    /\ pacc = [p \in 1..Len(procs) |-> 0]
    /\ dsteps = [d \in 1..Len(devs) |-> 0]
    /\ dfrozen = [d \in 1..Len(devs) |->
                    IF devs[d].kind # "BasicDevice" /\ devs[d].time_remaining = 0
                    THEN Device_get(devs, devs[d].base_device) ELSE None]
    /\ dlast = [u |-> 0, fresh |-> 0, calls |-> <<>>]
    /\ obs = IF scenario.name = "device" /\ scenario.observe
             THEN <<Readings(devs)>> ELSE <<>>
    /\ last = [op |-> "init", on |-> "", id |-> 0]
    /\ tick = [start |-> procs, draws |-> [p \in 1..Len(procs) |-> NoDraw],
               dstart |-> devs, ddraws |-> [d \in 1..Len(devs) |-> NoDevDraw],
               log |-> <<>>]

\* no run loop is started when the objects are called directly
Idle == [mode |-> "none", pc |-> "idle", i |-> 0, ticks |-> 0, steps |-> 0,
         processes |-> {}, devices |-> {}, porder |-> <<>>, dorder |-> <<>>]

InitProc == Setup(ProcScenarios) /\ env = Idle

\* p.step(), for any process of the scenario
StepProcess(p) ==
    /\ SumSeq(psteps) < Budget(scenario)
    /\ \E d \in DrawsOf(procs, p) :
         LET r == Process_step(procs, p, d) IN
         /\ procs' = r.heap
         /\ raised' = r.raised
         /\ tick' = [tick EXCEPT !.draws[p] = d]
    /\ psteps' = [psteps EXCEPT ![p] = @ + 1]
    /\ pacc' = IF KindOf(p) = "IntegratedProcess"
               THEN [pacc EXCEPT ![p] = @ + Process_get(procs, procs[p].base_process)]
               ELSE pacc
    /\ last' = [op |-> "step", on |-> "process", id |-> p]
    /\ UNCHANGED <<scenario, devs, devGhost, env>>

NextProc == \E p \in Procs : StepProcess(p)

SpecProc == InitProc /\ [][NextProc]_vars

\* -------------------------------------------------- devices called directly
Devs == 1..Len(devs)
\* The devices no decorator wraps: the ones the caller holds and steps.
Roots(dheap) ==
    {d \in 1..Len(dheap) :
        \A e \in 1..Len(dheap) :
            dheap[e].kind = "BasicDevice" \/ dheap[e].base_device # d}
Lifetime(d) == DevsOf(scenario)[d].time_remaining
RECURSIVE CountCalls(_, _)
CountCalls(calls, d) ==
    IF calls = <<>> THEN 0
    ELSE (IF Head(calls) = Call(d) THEN 1 ELSE 0) + CountCalls(Tail(calls), d)

InitDev == Setup(DevScenarios) /\ env = Idle

\* d.step(), for a device the caller holds
StepDevice(d) ==
    /\ dsteps[d] < MaxDevSteps
    /\ \E dr \in DevDrawsOf(devs, d) :
         LET r == Device_step(devs, procs, d, dr)
             b == devs[Underlying(devs, d)]
             n == [e \in Devs |-> dsteps[e] + CountCalls(r.calls, e)]
         IN  /\ devs' = r.heap
             /\ raised' = r.raised
             /\ dsteps' = n
             /\ dfrozen' = [e \in Devs |->
                              IF devs[e].kind # "BasicDevice" /\ n[e] # dsteps[e]
                                 /\ n[e] = Lifetime(e)
                              THEN Device_get(r.heap, devs[e].base_device)
                              ELSE dfrozen[e]]
             /\ dlast' = [u |-> dr.u, fresh |-> Measurement_get(procs, b.measurement, dr.z2),
                           calls |-> r.calls]
             /\ obs' = IF scenario.observe THEN Append(obs, Readings(r.heap)) ELSE obs
    /\ last' = [op |-> "step", on |-> "device", id |-> d]
    /\ UNCHANGED <<scenario, procs, procGhost, runVars>>

\* d.get(), d.get_tags() and d.get_influx_meas() assign nothing
GetDevice(d) ==
    /\ last' = [op |-> "get", on |-> "device", id |-> d]
    /\ raised' = ""
    /\ UNCHANGED <<scenario, procs, devs, procGhost, devGhost, runVars>>

NextDev ==
    \/ \E p \in Procs : StepProcess(p)
    \/ \E d \in Roots(devs) : StepDevice(d)
    \/ \E d \in Roots(devs) : GetDevice(d)

SpecDev == InitDev /\ [][NextDev]_vars

\* ------------------------------------------------------------ Environment
Environment(processes, devices) == [processes |-> processes, devices |-> devices]
add_process(e, process) == [e EXCEPT !.processes = @ \cup {process}]
add_device(e, device) == [e EXCEPT !.devices = @ \cup {device}]

RECURSIVE AddAll(_, _, _)
AddAll(e, ps, ds) ==
    IF ps # {} THEN LET p == CHOOSE x \in ps : TRUE
                    IN  AddAll(add_process(e, p), ps \ {p}, ds)
    ELSE IF ds # {} THEN LET d == CHOOSE x \in ds : TRUE
                         IN  AddAll(add_device(e, d), ps, ds \ {d})
    ELSE e

\* The orders in which a for loop can iterate a set: any, and the same at
\* every tick as long as the set is not changed.
Orders(S) == {o \in [1..Cardinality(S) -> S] : \A i, j \in DOMAIN o : i # j => o[i] # o[j]}

\* The control flow of the three run loops: for process in processes: step;
\* for device in devices: step, then emit; sleep; and again (generate_data:
\* for range(steps)).
\* generate_data going on to the next tick without a device loop
StartDevices_live_only(e) ==
    IF Len(e.dorder) > 0 /\ e.mode # "generate_data"
    THEN [e EXCEPT !.pc = "device", !.i = 1]
    ELSE [e EXCEPT !.pc = "sleep", !.i = 0]
StartDevices(e) ==
    IF Len(e.dorder) > 0 THEN [e EXCEPT !.pc = "device", !.i = 1]
    ELSE [e EXCEPT !.pc = "sleep", !.i = 0]
StartTick(e) ==
    IF e.mode = "generate_data" /\ e.ticks >= e.steps THEN [e EXCEPT !.pc = "done", !.i = 0]
    ELSE IF Len(e.porder) > 0 THEN [e EXCEPT !.pc = "process", !.i = 1]
    ELSE StartDevices(e)
\* the process loop goes on to the device loop after one process
AfterProcessStep_first(e) == StartDevices(e)
AfterProcessStep(e) ==
    IF e.i < Len(e.porder) THEN [e EXCEPT !.i = @ + 1] ELSE StartDevices(e)
AfterDeviceStep(e) == [e EXCEPT !.pc = "emit"]
AfterEmit(e) ==
    IF e.i < Len(e.dorder) THEN [e EXCEPT !.pc = "device", !.i = @ + 1]
    ELSE [e EXCEPT !.pc = "sleep", !.i = 0]
AfterSleep(e) == StartTick([e EXCEPT !.ticks = @ + 1])
Raised(e) == [e EXCEPT !.pc = "raised"]

\* Every process is handed to add_process where it is constructed and once
\* more afterwards; the loops iterate the set that results.
InitEnv ==
    /\ Setup(EnvScenarios)
    /\ LET e == AddAll(AddAll(Environment({}, {}),
                              1..Len(procs), EnvRegistered(scenario.graph)),
                       1..Len(procs), {})
       IN  \E po \in Orders(e.processes), do \in Orders(e.devices) :
             env = StartTick([mode |-> scenario.mode, pc |-> "idle", i |-> 0, ticks |-> 0,
                              steps |-> scenario.steps,
                              processes |-> e.processes, devices |-> e.devices,
                              porder |-> po, dorder |-> do])

Log(ev, id, value) == [ev |-> ev, id |-> id, value |-> value]

\* for process in self.processes: process.step()
RunStepProcess ==
    /\ env.pc = "process"
    /\ LET p == env.porder[env.i] IN
       /\ \E d \in DrawsOf(procs, p) :
            LET r == Process_step(procs, p, d) IN
            /\ procs' = r.heap
            /\ raised' = r.raised
            /\ env' = IF r.raised = "" THEN AfterProcessStep(env) ELSE Raised(env)
            /\ tick' = [tick EXCEPT !.draws[p] = d,
                                    !.log = Append(@, Log("pstep", p, None))]
       /\ psteps' = [psteps EXCEPT ![p] = @ + 1]
       /\ pacc' = IF KindOf(p) = "IntegratedProcess"
                  THEN [pacc EXCEPT ![p] = @ + Process_get(procs, procs[p].base_process)]
                  ELSE pacc
       /\ last' = [op |-> "step", on |-> "process", id |-> p]
    /\ UNCHANGED <<scenario, devs, devGhost>>

\* for device in self.devices: device.step()
RunStepDevice ==
    /\ env.pc = "device"
    /\ LET d == env.dorder[env.i] IN
       /\ \E dr \in DevDrawsOf(devs, d) :
            LET r == Device_step(devs, procs, d, dr)
                b == devs[Underlying(devs, d)]
                n == [e \in Devs |-> dsteps[e] + CountCalls(r.calls, e)]
            IN  /\ devs' = r.heap
                /\ raised' = r.raised
                /\ env' = IF r.raised = "" THEN AfterDeviceStep(env) ELSE Raised(env)
                /\ dsteps' = n
                /\ dfrozen' = [e \in Devs |->
                                 IF devs[e].kind # "BasicDevice" /\ n[e] # dsteps[e]
                                    /\ n[e] = Lifetime(e)
                                 THEN Device_get(r.heap, devs[e].base_device)
                                 ELSE dfrozen[e]]
                /\ dlast' = [u |-> dr.u, fresh |-> Measurement_get(procs, b.measurement, dr.z2),
                           calls |-> r.calls]
                /\ tick' = [tick EXCEPT !.ddraws[d] = dr, !.log =
                               Append(@, Log("dstep", d, Device_get(r.heap, d)))]
       /\ last' = [op |-> "step", on |-> "device", id |-> d]
    /\ UNCHANGED <<scenario, procs, procGhost, obs>>

\* What the loop body does with the device after its step:
\*   run_console  : print(..., device.get(), "tags:", device.tags); only a
\*                  BasicDevice has the attribute tags
\*   run_influx   : write_device(device, bucket), which returns without a
\*                  write when device.get() is None
\*   generate_data: file.write of a line with d.get() and the tags room_id and
\*                  sensor_id, then d.get()
\* a write_device that takes a reading of 0 for no reading (if not value)
write_device_truthy(dheap, d) ==
    LET value == Device_get(dheap, d) IN
    IF value = None \/ value = Some(0) THEN <<>>
    ELSE <<[measurement |-> Device_get_influx_meas(dheap, d), value |-> value,
            tags |-> Device_get_tags(dheap, d)]>>
write_device(dheap, d) ==
    LET value == Device_get(dheap, d) IN
    IF value = None THEN <<>>
    ELSE <<[measurement |-> Device_get_influx_meas(dheap, d), value |-> value,
            tags |-> Device_get_tags(dheap, d)]>>
Emit(mode, dheap, d) ==
    CASE mode = "run_console" ->
            IF dheap[d].kind = "BasicDevice"
            THEN [out |-> <<[name |-> dheap[d].name, value |-> Device_get(dheap, d),
                             tags |-> dheap[d].tags]>>, raised |-> ""]
            ELSE [out |-> <<>>, raised |-> "AttributeError"]
      [] mode = "run_influx" -> [out |-> write_device(dheap, d), raised |-> ""]
      [] mode = "generate_data" ->
            LET tags == Device_get_tags(dheap, d) IN
            IF {"room_id", "sensor_id"} \subseteq DOMAIN tags
            THEN [out |-> <<[measurement |-> Device_get_influx_meas(dheap, d),
                             value |-> Device_get(dheap, d),
                             room_id |-> tags.room_id, sensor_id |-> tags.sensor_id]>>,
                  raised |-> ""]
            ELSE [out |-> <<>>, raised |-> "KeyError"]

RunEmit ==
    /\ env.pc = "emit"
    /\ LET d == env.dorder[env.i]
           r == Emit(env.mode, devs, d)
       IN  /\ raised' = r.raised
           /\ env' = IF r.raised = "" THEN AfterEmit(env) ELSE Raised(env)
           /\ tick' = [tick EXCEPT !.log =
                          @ \o [k \in 1..Len(r.out) |-> Log("emit", d, r.out[k].value)]]
           /\ last' = [op |-> "emit", on |-> "device", id |-> d]
    /\ UNCHANGED <<scenario, procs, devs, procGhost, devGhost>>

\* sleep(dt) (generate_data: time += dt), then the next tick
RunSleep ==
    /\ env.pc = "sleep"
    /\ env.ticks + 1 < MaxRunTicks \/ env.mode = "generate_data"
    /\ env' = AfterSleep(env)
    /\ tick' = [start |-> procs, draws |-> [p \in Procs |-> NoDraw],
                dstart |-> devs, ddraws |-> [d \in Devs |-> NoDevDraw],
                log |-> <<>>]
    /\ last' = [op |-> "sleep", on |-> "", id |-> 0]
    /\ raised' = ""
    /\ UNCHANGED <<scenario, procs, devs, procGhost, devGhost>>

NextEnv == RunStepProcess \/ RunStepDevice \/ RunEmit \/ RunSleep

SpecEnv == InitEnv /\ [][NextEnv]_vars

\* ------------------------------------------------------------------ claims
Composite == {"SumProcess", "ProductProcess", "TransformedProcess"}
LastStepOf(kinds) ==
    last'.op = "step" /\ last'.on = "process" /\ procs[last'.id].kind \in kinds

\* C1: a BirthDeathProcess with limit L > 0 has 0 <= value <= L after one or
\* more step() calls, for any integer init and any birth and death counts.
C1_BirthDeathWithinLimit ==
    \A p \in Procs :
        (KindOf(p) = "BirthDeathProcess" /\ procs[p].limit > 0 /\ psteps[p] >= 1)
            => (0 <= Process_get(procs, p) /\ Process_get(procs, p) <= procs[p].limit)

\* C1 witness: a process constructed above its limit has been stepped and sits
\* at the limit.
C1_Witness ==
    /\ scenario.name = "birthdeath"
    /\ scenario.limit > 0 /\ scenario.init > scenario.limit
    /\ psteps[3] >= 2
    /\ procs[3].value = scenario.limit

SeasonalExample ==
    [name |-> "pwconstant",
     shape |-> [phase_lengths |-> <<3, 2>>, values |-> <<10, 20>>],
     seasonal |-> TRUE]

\* C4: the seasonal PwConstantProcess([3,2],[10,20]) reports 10 at ticks 0..3,
\* then 20 until the phase ends (ticks 4..6), then is back in its initial state
\* (phase, t, value), so that get() repeats with that period over every full
\* cycle; no step() raises.
C4_SeasonalWrapAround ==
    scenario = SeasonalExample =>
        LET k == psteps[1] IN
        /\ raised = ""
        /\ (k % 7 <= 3 => Process_get(procs, 1) = 10)
        /\ (k % 7 >= 4 => Process_get(procs, 1) = 20)
        /\ (k % 7 = 0 => procs[1] = ProcsOf(scenario)[1])
        /\ (k % 7 # 0 => procs[1] # ProcsOf(scenario)[1])

\* C4 witness: two full cycles done, the process is in its initial state again.
C4_Witness ==
    scenario = SeasonalExample /\ psteps[1] = 14 /\ procs[1] = ProcsOf(scenario)[1]

\* C5: an IntegratedProcess starts at base.get() + offset and after k steps holds
\* that plus the sum of the base values read by the k steps (7 + 2k over
\* Constant(2) with offset 5); its step() changes no other object.
C5_IntegratedValue ==
    \A p \in Procs :
        KindOf(p) = "IntegratedProcess" =>
            /\ procs[p].value =
                  Process_get(ProcsOf(scenario), procs[p].base_process)
                    + scenario.offset + pacc[p]
            /\ (scenario.base = "constant" /\ scenario.offset = 5
                    => Process_get(procs, p) = 7 + 2 * psteps[p])
C5_IntegratedFrame ==
    LastStepOf({"IntegratedProcess"}) =>
        /\ raised' = ""
        /\ \A q \in Procs \ {last'.id} : procs'[q] = procs[q]
\* C5: in every state the value is the initial value plus the base values read,
\* and every step() of an IntegratedProcess leaves the other objects as they were.
C5_Integrated == []C5_IntegratedValue /\ [][C5_IntegratedFrame]_vars

\* C5 witness: three steps over Constant(2) with offset 5.
C5_Witness ==
    /\ scenario.name = "integrated" /\ scenario.base = "constant"
    /\ scenario.offset = 5
    /\ psteps[2] = 3 /\ procs[2].value = 13

\* C6: step() of a SumProcess, ProductProcess or TransformedProcess changes no
\* object, and get() is the sum, product or image of the components' current
\* values; SumProcess([Constant(3), Constant(4)]).get() is always 7.
C6_CompositeValue ==
    scenario.name = "composite" =>
        LET cur == procs[4].samples[procs[4].t + 1] IN
        /\ Process_get(procs, 3) = 7
        /\ Process_get(procs, 5) = 3 + cur
        /\ Process_get(procs, 6) = 4 * cur
        /\ Process_get(procs, 7) = 2 * cur
C6_CompositeFrame ==
    LastStepOf(Composite) => (procs' = procs /\ raised' = "")
\* C6: in every state get() is the sum, product or image of the components'
\* current values, and every step() of a composite leaves the heap as it was.
C6_CompositeNoOp == []C6_CompositeValue /\ [][C6_CompositeFrame]_vars

\* C6 witness: the sums were stepped, a component moved on, and the sum follows.
C6_Witness ==
    /\ scenario.name = "composite"
    /\ psteps[3] >= 1 /\ psteps[5] >= 1 /\ psteps[4] = 1
    /\ Process_get(procs, 3) = 7 /\ Process_get(procs, 5) = 5

Root == Len(devs)
Base(d) == devs[d].base_device
PerfectSticky2 ==
    DevScenario(<<[kind |-> "StickyDevice", lifetime |-> 2]>>, 0, FALSE, 0, TRUE)

\* C2: a DoomedDevice of lifetime N returns the wrapped device's reading at
\* every tick t < N and None at tick N and at every later tick, whatever the
\* wrapped device returns (tick t: after t step() calls).
C2_DoomedAbsentAfterLifetime ==
    \A d \in Devs :
        devs[d].kind = "DoomedDevice" =>
            /\ (dsteps[d] < Lifetime(d) => Device_get(devs, d) = Device_get(devs, Base(d)))
            /\ (dsteps[d] >= Lifetime(d) => Device_get(devs, d) = None)

\* C2 witness: the lifetime ran out a tick ago, the wrapped device has a
\* reading and the DoomedDevice has none.
C2_Witness ==
    /\ scenario.name = "device" /\ Len(scenario.chain) = 1
    /\ devs[Root].kind = "DoomedDevice" /\ Lifetime(Root) = 2
    /\ dsteps[Root] = 3
    /\ Device_get(devs, Base(Root)) # None
    /\ Device_get(devs, Root) = None

\* C3: a StickyDevice of lifetime N over a device reading v(t) at tick t reads
\* v(t) at every tick t <= N and v(N) at every tick t > N; for lifetime 2 and
\* v = 1, 2, 3, 4 it reads 1, 2, 3, 3, 3.
C3_StickyFreezes ==
    \A d \in Devs :
        devs[d].kind = "StickyDevice" =>
            /\ (dsteps[d] <= Lifetime(d) => Device_get(devs, d) = Device_get(devs, Base(d)))
            /\ (dsteps[d] > Lifetime(d) => Device_get(devs, d) = dfrozen[d])
            /\ (scenario.observe =>
                  \A t \in 0..(Len(obs) - 1) :
                      obs[t + 1][d] = obs[Min(t, Lifetime(d)) + 1][Base(d)])
            /\ (scenario = PerfectSticky2 /\ Len(obs) = 5
                    /\ [t \in 1..4 |-> obs[t][Base(d)]] = <<Some(1), Some(2), Some(3), Some(4)>>
                  => [t \in 1..5 |-> obs[t][d]]
                        = <<Some(1), Some(2), Some(3), Some(3), Some(3)>>)

\* C3 witness: the example run, wrapped readings 1, 2, 3, 4 and a fifth tick.
C3_Witness ==
    /\ scenario = PerfectSticky2 /\ Len(obs) = 5
    /\ [t \in 1..4 |-> obs[t][1]] = <<Some(1), Some(2), Some(3), Some(4)>>
    /\ [t \in 1..5 |-> obs[t][2]] = <<Some(1), Some(2), Some(3), Some(3), Some(3)>>
    /\ obs[5][1] # Some(3)

\* C7: after a step() of a BasicDevice the reading is absent exactly when the
\* skip draw of that step succeeded (random() < p_skip): always with
\* p_skip = 1.0, never with p_skip = 0, and a present reading is the
\* measurement sampled by that step.
C7_BasicSkip ==
    \A d \in Devs :
        (devs[d].kind = "BasicDevice" /\ dsteps[d] >= 1) =>
            /\ (Device_get(devs, d) = None <=> dlast.u < devs[d].p_skip)
            /\ (Device_get(devs, d) # None => Device_get(devs, d) = Some(dlast.fresh))
            /\ (devs[d].p_skip = RandRes => Device_get(devs, d) = None)
            /\ (devs[d].p_skip = 0 => Device_get(devs, d) = Some(dlast.fresh))

\* C7 witness: a noisy device with p_skip = 0 was stepped with the draw
\* random() = 0 after its process moved on, and reads the fresh sample.
C7_Witness ==
    /\ scenario.name = "device" /\ scenario.chain = <<>> /\ scenario.noise
    /\ scenario.p_skip = 0 /\ dsteps[1] >= 2 /\ psteps[1] >= 1
    /\ dlast.u = 0 /\ dlast.fresh = 3
    /\ Device_get(devs, 1) = Some(3)

\* C8: get_tags() and get_influx_meas() of every device, decorators and nested
\* decorators included, return what the wrapped BasicDevice was constructed
\* with after any number of step() and get() calls.
C8_MetadataStable ==
    \A d \in Devs :
        /\ Device_get_tags(devs, d) = ExampleTags
        /\ Device_get_influx_meas(devs, d) = "temperature"
        /\ Device_get_tags(devs, d) = Device_get_tags(DevsOf(scenario), d)
        /\ Device_get_influx_meas(devs, d) = Device_get_influx_meas(DevsOf(scenario), d)
        /\ (devs[d].kind # "BasicDevice" =>
              /\ Device_get_tags(devs, d) = devs[Underlying(devs, d)].tags
              /\ Device_get_influx_meas(devs, d) = devs[Underlying(devs, d)].influx_meas)

\* C8 witness: two nested decorators, stepped past both lifetimes, then read.
C8_Witness ==
    /\ scenario.name = "device" /\ Len(scenario.chain) = 2
    /\ devs[2].kind = "StickyDevice" /\ devs[3].kind = "DoomedDevice"
    /\ dsteps[3] = 3 /\ dsteps[1] = 3
    /\ devs[3].time_remaining = 0 /\ devs[2].time_remaining = 0
    /\ last.op = "get" /\ last.id = 3
    /\ Device_get_tags(devs, 3) = ExampleTags

TickLog == tick.log
ProcessesStepped == env.pc \in {"device", "emit", "sleep"}

\* C9: in every tick of run_console, run_influx and generate_data the step() of
\* every registered process is done before the step() of any device starts:
\* when a device is stepped every process has been stepped once more than
\* there are finished ticks, and no process is stepped after a device.
C9_ProcessesBeforeDevices ==
    /\ \A k \in 1..Len(TickLog) :
          TickLog[k].ev = "dstep" =>
              /\ \A p \in env.processes :
                    \E i \in 1..(k - 1) : TickLog[i] = Log("pstep", p, None)
              /\ \A j \in (k + 1)..Len(TickLog) : TickLog[j].ev # "pstep"
    /\ env.pc \in {"device", "emit"} =>
          \A p \in env.processes : psteps[p] = env.ticks + 1

\* C9 witness: the second tick of a run with three processes, a device stepped.
C9_Witness ==
    /\ env.mode = "run_influx" /\ env.ticks = 1 /\ env.pc = "emit"
    /\ Cardinality(env.processes) = 3
    /\ \E k \in 1..Len(TickLog) : TickLog[k].ev = "dstep"

\* The processes of a heap stepped in the order o with the draws ds, from step i on.
\* A step() that raises ends the loop: the later processes are not stepped.
RECURSIVE ProcessLoop(_, _, _, _, _)
ProcessLoop(heap, o, ds, i, calls) ==
    IF i > Len(o) THEN [heap |-> heap, raised |-> "", calls |-> calls]
    ELSE LET r  == Process_step(heap, o[i], ds[o[i]])
             cs == Append(calls, <<"pstep", o[i]>>)
         IN  IF r.raised # "" THEN [heap |-> r.heap, raised |-> r.raised, calls |-> cs]
             ELSE ProcessLoop(r.heap, o, ds, i + 1, cs)
RunProcesses(heap, o, ds, i) == ProcessLoop(heap, o, ds, i, <<>>).heap
Values(heap) == [p \in 1..Len(heap) |-> Process_get(heap, p)]

\* C10: the values of all processes at the end of a tick do not depend on the
\* order in which the Environment steps them: every order of stepping the
\* registered processes, with the draws of this tick, gives the values reached.
C10_OrderIndependent ==
    ProcessesStepped =>
        \A o \in Orders(env.processes) :
            Values(RunProcesses(tick.start, o, tick.draws, 1)) = Values(procs)

\* The index of the event after the step() logged at k: the write of that
\* device in this tick, if there is one.
Stepped(k) == TickLog[k].ev = "dstep" /\ (k < Len(TickLog) \/ env.pc # "emit")
Wrote(k) == k < Len(TickLog) /\ TickLog[k + 1].ev = "emit"

\* C11: in run_influx a point is written for a device in a tick exactly when
\* the device's get() after its step() of that tick is present; the point
\* carries that reading, also when the reading is 0, and nothing is written for
\* an absent reading.
C11_WriteIffPresent ==
    env.mode = "run_influx" =>
        \A k \in 1..Len(TickLog) :
            Stepped(k) =>
                /\ Wrote(k) <=> TickLog[k].value # None
                /\ Wrote(k) => TickLog[k + 1] = Log("emit", TickLog[k].id, TickLog[k].value)
                /\ TickLog[k].value = Some(0) =>
                      TickLog[k + 1] = Log("emit", TickLog[k].id, Some(0))

\* C11 witness: a tick of run_influx wrote a reading of 0 for one device and
\* nothing for a device whose reading was absent.
C11_Witness ==
    /\ env.mode = "run_influx" /\ env.pc = "sleep"
    /\ \E k \in 1..Len(TickLog) : TickLog[k].ev = "emit" /\ TickLog[k].value = Some(0)
    /\ \E k \in 1..Len(TickLog) :
          /\ TickLog[k] = Log("dstep", TickLog[k].id, None)
          /\ \A j \in 1..Len(TickLog) :
                TickLog[j].ev = "emit" => TickLog[j].id # TickLog[k].id

Last(seq) == seq[Len(seq)]
\* step() calls after which the phases of a schedule are over, whether a
\* phase of length n is left by the n-th or by the (n+1)-th step()
Exhausted(phase_lengths) == SumSeq(phase_lengths) + Len(phase_lengths)

\* C12: a non-seasonal PwConstantProcess never raises from step(), and once
\* its phases are exhausted get() is the last entry of values at every tick.
C12_NonSeasonalHoldsLast ==
    \A p \in Procs :
        (KindOf(p) = "PwConstantProcess" /\ ~procs[p].seasonal) =>
            /\ raised = ""
            /\ psteps[p] >= Exhausted(procs[p].phase_lengths)
                  => Process_get(procs, p) = Last(procs[p].values)

\* The phase (0-based) of tick k in a schedule that holds phase i for
\* phase_lengths[i] ticks, from phase i on.
RECURSIVE PhaseAt(_, _, _)
PhaseAt(phase_lengths, k, i) ==
    IF i >= Len(phase_lengths) - 1 \/ k < phase_lengths[i + 1] THEN i
    ELSE PhaseAt(phase_lengths, k - phase_lengths[i + 1], i + 1)

\* C13: a PwConstantProcess with positive phase lengths reports values[phase]
\* for exactly phase_lengths[phase] consecutive ticks and then the next phase:
\* at tick k it is in the phase the schedule gives for k, and a seasonal one
\* is back in its initial state exactly every sum(phase_lengths) ticks.
C13_PhaseLengthTicks ==
    \A p \in Procs :
        (KindOf(p) = "PwConstantProcess" /\ raised = ""
            /\ \A i \in DOMAIN procs[p].phase_lengths : procs[p].phase_lengths[i] > 0) =>
            LET self   == procs[p]
                period == SumSeq(self.phase_lengths)
                k      == IF self.seasonal THEN psteps[p] % period ELSE psteps[p]
            IN  /\ Process_get(procs, p) = self.values[PhaseAt(self.phase_lengths, k, 0) + 1]
                /\ self.seasonal => (k = 0 <=> self = ProcsOf(scenario)[p])

C14_StepRule ==
    (LastStepOf({"BirthDeathProcess"}) /\ raised' = "") =>
        LET p      == last'.id
            nBirth == tick'.draws[p].n_birth
            nDeath == tick'.draws[p].n_death
            value  == procs[p].value
            limit  == procs[p].limit
        IN  /\ limit > 0 => procs'[p].value = Max(0, Min(limit, value + nBirth) - nDeath)
            /\ limit = 0 => procs'[p].value = Max(0, value + nBirth - nDeath)
            /\ procs'[p].value >= 0
            /\ \A q \in Procs \ {p} : procs'[q] = procs[q]
\* C14: one step() of a BirthDeathProcess with the drawn counts nBirth and
\* nDeath sets value to max(0, min(limit, value + nBirth) - nDeath) when
\* limit > 0 and to max(0, value + nBirth - nDeath) when limit = 0; the value
\* is never negative afterwards.
C14_BirthDeathStepRule == [][C14_StepRule]_vars

\* C14 witness: a process without limit has grown past every limit of the
\* scenarios, its last step with a birth and a death drawn.
C14_Witness ==
    /\ scenario.name = "birthdeath" /\ scenario.limit = 0 /\ scenario.init = 0
    /\ psteps[3] = 3 /\ procs[3].value > MaxLimit + MaxInit
    /\ last = [op |-> "step", on |-> "process", id |-> 3]
    /\ tick.draws[3].n_birth > 0 /\ tick.draws[3].n_death > 0

Emitted(k) == TickLog[k].ev = "emit"

\* C15: in each tick every registered device is stepped before the value of
\* any device is forwarded (no step() follows a forwarded value in the tick),
\* and every value forwarded in the tick is the value the device has when the
\* devices of the tick are all stepped.
C15_StepAllThenForward ==
    /\ \A j, k \in 1..Len(TickLog) : (Emitted(j) /\ TickLog[k].ev = "dstep") => k < j
    /\ env.pc = "sleep" =>
          \A j \in 1..Len(TickLog) :
              Emitted(j) => TickLog[j].value = Device_get(devs, TickLog[j].id)

\* C20: at the end of every tick each device object, added to the Environment,
\* wrapped by a DoomedDevice or StickyDevice, or both, has had one step() per
\* tick.
C20_EveryDeviceOncePerTick ==
    env.pc = "sleep" => \A d \in Devs : dsteps[d] = env.ticks + 1

RECURSIVE Count(_, _)
Count(log, e) ==
    IF log = <<>> THEN 0 ELSE (IF Head(log) = e THEN 1 ELSE 0) + Count(Tail(log), e)

C16_StepCount ==
    env.mode # "none" =>
        /\ env.processes = Procs
        /\ \A p \in env.processes :
              /\ Count(TickLog, Log("pstep", p, None)) <= 1
              /\ psteps[p] = env.ticks + Count(TickLog, Log("pstep", p, None))
              /\ ProcessesStepped => Count(TickLog, Log("pstep", p, None)) = 1
C16_StepFrame ==
    (last'.op = "step" /\ last'.on = "process") =>
        \A q \in Procs \ {last'.id} : procs'[q] = procs[q]
\* No process is stepped twice in a tick, whatever composites reference it
\* and although add_process was called with it more than once; every process
\* is stepped once in a tick whose process loop runs to its end; and the
\* step() of a process changes no other process.
C16_NeverTwice == []C16_StepCount /\ [][C16_StepFrame]_vars

\* The process loop of the tick is over: it ran to its end or a step() raised.
ProcessLoopOver == ProcessesStepped \/ (env.pc = "raised" /\ last.on = "process")

\* C16: in every tick the step() of every registered process is executed
\* exactly once: when the process loop of a tick is over, every registered
\* process has been stepped once in that tick.
C16_ExactlyOncePerTick ==
    (env.mode # "none" /\ ProcessLoopOver) =>
        \A p \in env.processes : Count(TickLog, Log("pstep", p, None)) = 1

\* A run where every tick steps each process once: the second tick of a run where one process is the base of an
\* IntegratedProcess and a component of a SumProcess; all three are stepped
\* and the shared one moved on by two.
C16_Witness ==
    /\ scenario.name = "env" /\ scenario.graph = "temperature"
    /\ env.ticks = 1 /\ env.pc = "device"
    /\ procs[2].base_process = 1 /\ 1 \in {procs[3].components[i] : i \in 1..2}
    /\ psteps = <<2, 2, 2>> /\ procs[1].t = 2

\* C17: a StickyDevice over a BasicDevice, its lifetime exhausted, has a
\* present get() at every tick, whatever the p_skip of the BasicDevice.
C17_StickyAlwaysPresent ==
    \A d \in Devs :
        (devs[d].kind = "StickyDevice" /\ devs[Base(d)].kind = "BasicDevice"
            /\ devs[d].time_remaining = 0)
            => Device_get(devs, d) # None

\* The devices of a heap stepped in the order o with the draws ds, from step i on.
\* A step() that raises ends the loop: the later devices are not stepped.
RECURSIVE DeviceLoop(_, _, _, _, _, _)
DeviceLoop(dheap, pheap, o, ds, i, calls) ==
    IF i > Len(o) THEN [heap |-> dheap, raised |-> "", calls |-> calls]
    ELSE LET r  == Device_step(dheap, pheap, o[i], ds[o[i]])
             cs == Append(calls, <<"dstep", o[i]>>)
         IN  IF r.raised # "" THEN [heap |-> r.heap, raised |-> r.raised, calls |-> cs]
             ELSE DeviceLoop(r.heap, pheap, o, ds, i + 1, cs)
RunDevices(dheap, pheap, o, ds, i) == DeviceLoop(dheap, pheap, o, ds, i, <<>>).heap
\* One iteration of the while loop of run_influx on the heaps: the process
\* loop, then the device loop; an exception of a step() leaves both.
LiveRun(pheap, dheap, e, pdraws, ddraws) ==
    LET p == ProcessLoop(pheap, e.porder, pdraws, 1, <<>>)
        d == IF p.raised # "" THEN [heap |-> dheap, raised |-> p.raised, calls |-> p.calls]
             ELSE DeviceLoop(dheap, p.heap, e.dorder, ddraws, 1, p.calls)
    IN  [procs |-> p.heap, devs |-> d.heap, raised |-> d.raised, calls |-> d.calls]
LiveTick(pheap, dheap, e, pdraws, ddraws) ==
    LET r == LiveRun(pheap, dheap, e, pdraws, ddraws)
    IN  [procs |-> r.procs, devs |-> r.devs]
\* The step() calls of that iteration, in their order.
LiveCalls(pheap, dheap, e, pdraws, ddraws) == LiveRun(pheap, dheap, e, pdraws, ddraws).calls
RECURSIVE StepCalls(_)
StepCalls(log) ==
    IF log = <<>> THEN <<>>
    ELSE (IF Head(log).ev \in {"pstep", "dstep"} THEN <<<<Head(log).ev, Head(log).id>>>>
          ELSE <<>>) \o StepCalls(Tail(log))

\* C18: a tick of generate_data makes the step() calls of a tick of run_influx,
\* on the same registries and in the same order, and leaves the processes and
\* devices in the state one tick of run_influx gives from the state at the
\* start of the tick with the same draws, also when a step() raises and ends
\* the run; generate_data(N) ends after N ticks.
C18_BatchStepsAsLive ==
    /\ (env.mode \in {"run_influx", "generate_data"} /\ env.pc \in {"sleep", "raised"}) =>
          /\ StepCalls(TickLog)
                = LiveCalls(tick.start, tick.dstart, env, tick.draws, tick.ddraws)
          /\ [procs |-> procs, devs |-> devs]
                = LiveTick(tick.start, tick.dstart, env, tick.draws, tick.ddraws)
          /\ raised = LiveRun(tick.start, tick.dstart, env, tick.draws, tick.ddraws).raised
    /\ env.pc = "done" =>
          /\ env.ticks = env.steps
          /\ \A p \in env.processes : psteps[p] = env.steps
          /\ \A d \in env.devices : dsteps[d] >= env.steps

\* C18 witness: the second tick of generate_data in the room, a birth drawn
\* and the skipping device stepped without a skip.
C18_Witness ==
    /\ env.mode = "generate_data" /\ scenario.graph = "room"
    /\ env.pc = "sleep" /\ env.ticks = 1
    /\ tick.draws[3].n_birth > 0 /\ tick.ddraws[1].u = 1
    /\ Device_get(devs, 1) # None
    /\ Len(TickLog) = 7

Pos(calls, e) == CHOOSE i \in 1..Len(calls) : calls[i] = e
Decorator(d) == devs[d].kind \in {"DoomedDevice", "StickyDevice"}

C19_Forwarded ==
    \A d \in Devs : Decorator(d) =>
        /\ dsteps[Base(d)] = dsteps[d]
        /\ devs[d].time_remaining = Max(0, Lifetime(d) - dsteps[d])
C19_StepOrder ==
    IF last'.op = "step" /\ last'.on = "device"
    THEN \A d \in Devs : Decorator(d) =>
            LET calls == dlast'.calls IN
            /\ CountCalls(calls, d) = 1
            /\ CountCalls(calls, Base(d)) = 1
            /\ Count(calls, Return(Base(d))) = 1
            /\ Count(calls, Counter(d)) = 1
            /\ Pos(calls, Call(d)) < Pos(calls, Call(Base(d)))
            /\ Pos(calls, Return(Base(d))) < Pos(calls, Counter(d))
            /\ Pos(calls, Counter(d)) < Pos(calls, Return(d))
            /\ devs'[d].time_remaining =
                  IF devs[d].time_remaining > 0 THEN devs[d].time_remaining - 1 ELSE 0
    ELSE devs' = devs
\* C19: every step() of a DoomedDevice or StickyDevice, before and after its
\* lifetime is exhausted, runs the step() of the wrapped device exactly once
\* and to its end before the decorator tests its counter; the counter goes
\* down by exactly 1 per step while it is positive and stays at 0 afterwards,
\* and nothing else changes it.
C19_DecoratorStep == []C19_Forwarded /\ [][C19_StepOrder]_vars

\* C19 witness: a decorator of lifetime 2 stepped four times, the wrapped
\* device stepped four times with it, the counter at 0.
C19_Witness ==
    /\ scenario.name = "device" /\ Len(scenario.chain) = 1
    /\ Decorator(Root) /\ Lifetime(Root) = 2
    /\ dsteps[Root] = 4 /\ dsteps[Base(Root)] = 4
    /\ devs[Root].time_remaining = 0
    /\ dlast.calls = <<Call(2), Call(1), Return(1), Counter(2), Return(2)>>

\* A run of generate_data ended by the IndexError of a step(), a process left
\* unstepped in that tick.
C18_RaisedReached ==
    /\ env.mode = "generate_data" /\ env.pc = "raised" /\ raised = "IndexError"
    /\ env.ticks = 1 /\ psteps = <<2, 1>>

====
